---------------------------- MODULE Spec2Model ----------------------------
(*************************************************************************)
(* enex2org: the ENML renderer (enml.note2org: tree walker and token     *)
(* stream post-processor), the heading formatter                         *)
(* (enex2org.format_title_and_tags) and the attachment filename          *)
(* de-duplication (enex2org.ensure_unique_filenames).                    *)
(*                                                                       *)
(* Strings are sequences of one-character strings.  An item of the       *)
(* token stream rv is a record [k, s]: k = "str" for a text fragment     *)
(* with characters s, or the name of one of the nine marker objects.     *)
(*************************************************************************)
EXTENDS Integers, Sequences, FiniteSets, TLC

VARIABLES
    tree,          \* note.content: the elements in document order
    pc,            \* "parse", then in note2org: "walk", "scan", "done", "raised"
    stack,         \* the open process_elt calls (indices into tree)
    cur,           \* the next element, in document order, a loop will reach
    rv,            \* the token stream
    idx,           \* position of the post-processing loop in rv
    indent_level,
    in_row,
    lists,
    new_strs,
    result,        \* the returned string (pc = "done")
    err,           \* the exception raised (pc = "raised")
    tpc,           \* position in Note.write
    title,         \* self.title
    tags,          \* self.tags
    has_resources, \* whether self.resources is non-empty
    heading,       \* what format_title_and_tags returned
    fpc,           \* ensure_unique_filenames: position
    resources,     \* the filenames of the resources, in order
    used_filenames,
    ri,            \* index of res in resources
    suffix,
    proposed_filename

vars == <<tree, pc, stack, cur, rv, idx, indent_level, in_row, lists,
          new_strs, result, err, tpc, title, tags, has_resources, heading,
          fpc, resources,
          used_filenames, ri, suffix, proposed_filename>>

renderVars == <<tree, pc, stack, cur, rv, idx, indent_level, in_row, lists,
                new_strs, result, err>>
titleVars == <<tpc, title, tags, has_resources, heading>>
fileVars == <<fpc, resources, used_filenames, ri, suffix, proposed_filename>>

-----------------------------------------------------------------------------
(* Bounds of the model *)

\* elements plus non-empty text/tail fragments of a document tree
MaxSize == 4
\* elements of a document tree of lists and list items only
MaxListSize == 5
\* characters of a note's title
MaxTitleLen == 77
\* resources of a note
MaxResources == 3

-----------------------------------------------------------------------------
(* Strings *)

NL == "\n"
SP == " "

Last(s) == s[Len(s)]
Front(s) == SubSeq(s, 1, Len(s) - 1)

RECURSIVE Repeat(_, _)
\* s * n
Repeat(s, n) == IF n <= 0 THEN <<>> ELSE s \o Repeat(s, n - 1)

RECURSIVE Replace(_, _, _)
\* s.replace(old, new) for a one-character old
Replace(s, old, new) ==
    IF s = <<>> THEN <<>>
    ELSE (IF Head(s) = old THEN new ELSE <<Head(s)>>) \o Replace(Tail(s), old, new)

RECURSIVE Join(_)
\* ''.join(strs)
Join(strs) == IF strs = <<>> THEN <<>> ELSE Head(strs) \o Join(Tail(strs))

Digit(d) == <<"0", "1", "2", "3", "4", "5", "6", "7", "8", "9">>[d + 1]

RECURSIVE StrOfInt(_)
\* str(n) for n >= 0
StrOfInt(n) == IF n < 10 THEN <<Digit(n)>> ELSE StrOfInt(n \div 10) \o <<Digit(n % 10)>>

\* os.path.join(a, b) on posix
PathJoin(a, b) ==
    IF b # <<>> /\ Head(b) = "/" THEN b
    ELSE IF a = <<>> \/ Last(a) = "/" THEN a \o b
    ELSE a \o <<"/">> \o b

-----------------------------------------------------------------------------
(* Token stream items *)

Str(s) == [k |-> "str", s |-> s]
Marker(name) == [k |-> name, s |-> <<>>]

INDENT == Marker("INDENT")
DEDENT == Marker("DEDENT")
START_ROW == Marker("START_ROW")
END_ROW == Marker("END_ROW")
LIST_ITEM == Marker("LIST_ITEM")
BEGIN_ORDERED == Marker("BEGIN_ORDERED")
END_ORDERED == Marker("END_ORDERED")
BEGIN_UNORDERED == Marker("BEGIN_UNORDERED")
END_UNORDERED == Marker("END_UNORDERED")

IsStr(item) == item.k = "str"

\* the outcome of a handler's code before its yield: the stream, or an exception
Ok(stream) == [err |-> "", rv |-> stream]
Raise(e, stream) == [err |-> e, rv |-> stream]

-----------------------------------------------------------------------------
(* The note: resource table and attachment directory *)

NoAttr == <<"<absent>">>

AttachmentDir == <<"d", "a", "t", "a", "/", "a", "b", "/", "c", "d">>

\* note.resources: hash -> filename
Resources == [h \in {<<"h">>, <<"g">>} |->
                 IF h = <<"h">> THEN <<"p", ".", "x">> ELSE <<"/", "p">>]

-----------------------------------------------------------------------------
(* Render handlers: the code before the yield (X_enter) and after it (X_exit) *)

italics_enter(stream, elt) == Ok(Append(stream, Str(<<"/">>)))
italics_exit(stream) == Append(stream, Str(<<"/">>))

list_item_enter(stream, elt) == Ok(stream \o <<LIST_ITEM, INDENT>>)
\* list_item without the DEDENT after the yield
list_item_exit_NoDedent(stream) == stream
list_item_exit(stream) == Append(stream, DEDENT)

todo_enter(stream, elt) == Ok(Append(stream, Str(<<"[", " ", "]", " ">>)))

underline_enter(stream, elt) == Ok(Append(stream, Str(<<"_">>)))
underline_exit(stream) == Append(stream, Str(<<"_">>))

bold_enter(stream, elt) == Ok(Append(stream, Str(<<"*">>)))
bold_exit(stream) == Append(stream, Str(<<"*">>))

link_enter(stream, elt) ==
    Ok(stream \o <<Str(<<"[", "[">>),
                   Str(IF elt.attrib = NoAttr THEN <<>> ELSE elt.attrib),
                   Str(<<"]", "[">>)>>)
link_exit(stream) == Append(stream, Str(<<"]", "]">>))

table_row_enter(stream, elt) == Ok(stream \o <<Str(<<NL>>), START_ROW>>)
table_row_exit(stream) == Append(stream, END_ROW)

table_cell_enter(stream, elt) == Ok(Append(stream, Str(<<"|", " ">>)))

table_enter(stream, elt) == Ok(Append(stream, Str(<<NL, "|", "-">>)))
table_exit(stream) == Append(stream, Str(<<NL, "|", "-">>))

\* rv and rv[-1] and rv[-1][-1] != '\n': a marker object is truthy and not
\* subscriptable
add_newline_enter(stream, elt) ==
    IF stream = <<>> THEN Ok(stream)
    ELSE IF IsStr(Last(stream)) /\ Last(stream).s = <<>> THEN Ok(stream)
    ELSE IF ~IsStr(Last(stream)) THEN Raise("TypeError", stream)
    ELSE IF Last(Last(stream).s) # NL THEN Ok(Append(stream, Str(<<NL>>)))
    ELSE Ok(stream)
add_newline_exit(stream) == Append(stream, Str(<<NL>>))

horizontal_rule_enter(stream, elt) ==
    Ok(Append(stream, Str(<<NL>> \o Repeat(<<"-">>, 10) \o <<NL>>)))

unordered_list_enter(stream, elt) == Ok(Append(stream, BEGIN_UNORDERED))
unordered_list_exit(stream) == Append(stream, END_UNORDERED)

ordered_list_enter(stream, elt) == Ok(Append(stream, BEGIN_ORDERED))
ordered_list_exit(stream) == Append(stream, END_ORDERED)

br_enter(stream, elt) == Ok(Append(stream, Str(<<NL>>)))

media_enter(stream, elt) ==
    IF elt.attrib \notin DOMAIN Resources THEN Raise("KeyError", stream)
    ELSE LET filename == Resources[elt.attrib]
         IN  Ok(Append(stream,
                 Str(<<"[", "[", "f", "i", "l", "e", ":">>
                     \o PathJoin(AttachmentDir, filename)
                     \o <<"]", "[">> \o filename \o <<"]", "]">>)))

default_enter(stream, elt) == Ok(stream)

\* tag2contextmgr.get(elt.tag, default)(rv, elt, note), up to the yield
HandlerEnter(stream, elt) ==
    CASE elt.tag = "i" -> italics_enter(stream, elt)
      [] elt.tag = "li" -> list_item_enter(stream, elt)
      [] elt.tag = "en-todo" -> todo_enter(stream, elt)
      [] elt.tag \in {"strong", "b"} -> bold_enter(stream, elt)
      [] elt.tag = "a" -> link_enter(stream, elt)
      [] elt.tag = "u" -> underline_enter(stream, elt)
      [] elt.tag = "tr" -> table_row_enter(stream, elt)
      [] elt.tag \in {"td", "th"} -> table_cell_enter(stream, elt)
      [] elt.tag = "table" -> table_enter(stream, elt)
      [] elt.tag = "div" -> add_newline_enter(stream, elt)
      [] elt.tag = "hr" -> horizontal_rule_enter(stream, elt)
      [] elt.tag = "ul" -> unordered_list_enter(stream, elt)
      [] elt.tag = "ol" -> ordered_list_enter(stream, elt)
      [] elt.tag = "br" -> br_enter(stream, elt)
      [] elt.tag = "en-media" -> media_enter(stream, elt)
      [] OTHER -> default_enter(stream, elt)

\* the same context manager, after the yield
HandlerExit(stream, elt) ==
    CASE elt.tag = "i" -> italics_exit(stream)
      [] elt.tag = "li" -> list_item_exit(stream)
      [] elt.tag \in {"strong", "b"} -> bold_exit(stream)
      [] elt.tag = "a" -> link_exit(stream)
      [] elt.tag = "u" -> underline_exit(stream)
      [] elt.tag = "tr" -> table_row_exit(stream)
      [] elt.tag = "table" -> table_exit(stream)
      [] elt.tag = "div" -> add_newline_exit(stream)
      [] elt.tag = "ul" -> unordered_list_exit(stream)
      [] elt.tag = "ol" -> ordered_list_exit(stream)
      [] OTHER -> stream

-----------------------------------------------------------------------------
(* Document trees: the elements in document order, each with its depth *)

Node(tag, depth, text, tail, attrib) ==
    [tag |-> tag, depth |-> depth, text |-> text, tail |-> tail, attrib |-> attrib]

Kind(tag, attrib) == [tag |-> tag, attrib |-> attrib]
Plain(tagset) == {Kind(t, NoAttr) : t \in tagset}

Weight(n) == 1 + (IF n.text # <<>> THEN 1 ELSE 0) + (IF n.tail # <<>> THEN 1 ELSE 0)

RECURSIVE Size(_)
Size(t) == IF t = <<>> THEN 0 ELSE Weight(Head(t)) + Size(Tail(t))

\* the elements that can come next in document order, within the size left:
\* the root when t is empty, else a descendant of the root
NextNodes(t, kinds, texts, max) ==
    {n \in {Node(k.tag, d, tx, tl, k.attrib) :
                k \in kinds,
                d \in (IF t = <<>> THEN {0} ELSE 1..(Last(t).depth + 1)),
                tx \in texts \cup {<<>>},
                tl \in (IF t = <<>> THEN {<<>>} ELSE texts \cup {<<>>})} :
        Size(t) + Weight(n) <= max}

\* the last element of the subtree rooted at element c
RECURSIVE SubtreeEnd(_, _, _)
SubtreeEnd(t, c, j) ==
    IF j + 1 <= Len(t) /\ t[j + 1].depth > t[c].depth
    THEN SubtreeEnd(t, c, j + 1) ELSE j

-----------------------------------------------------------------------------
(* note2org: the walker process_elt *)

\* elt.text.replace('\n', '') and c.tail.replace('\n', ''), appended when truthy
TextItem(text) == IF text # <<>> THEN <<Str(Replace(text, NL, <<>>))>> ELSE <<>>

\* the test without the condition on the parent
Suppressed_AnyParent(elt, c) == c.tag = "br"
\* the test of the loop over the children: a br directly under a div is passed over
Suppressed(elt, c) == elt.tag = "div" /\ c.tag = "br"

Walking == pc = "walk"
\* the next element in document order is a child of the innermost open element
\* (or the root, when process_elt(root, rv) is called)
AtChild == Walking /\ cur <= Len(tree) /\ tree[cur].depth = Len(stack)
\* the loop over the children of the innermost open element is exhausted
AtEnd ==
    /\ Walking
    /\ stack # <<>>
    /\ IF cur <= Len(tree) THEN tree[cur].depth < Len(stack) ELSE TRUE

scanVarsUnchanged == UNCHANGED <<idx, indent_level, in_row, lists, new_strs, result>>

\* Note.__init__: ET.fromstring reads the next element of the note's content
fromstring(kinds, texts, max) ==
    /\ pc = "parse"
    /\ \E n \in NextNodes(tree, kinds, texts, max) : tree' = Append(tree, n)
    /\ UNCHANGED <<pc, stack, cur, rv, err>>
    /\ scanVarsUnchanged
    /\ UNCHANGED <<titleVars, fileVars>>

\* note2org(note) is called: its locals are initialised, process_elt(root, rv) begins
note2org ==
    /\ pc = "parse"
    /\ tree # <<>>
    /\ pc' = "walk"
    /\ stack' = <<>>
    /\ cur' = 1
    /\ rv' = <<>>
    /\ idx' = 1
    /\ indent_level' = 0
    /\ in_row' = FALSE
    /\ lists' = <<>>
    /\ new_strs' = <<>>
    /\ UNCHANGED <<tree, result, err, titleVars, fileVars>>

\* process_elt(c, rv): enter the context manager, append elt.text
ProcessElt ==
    /\ AtChild
    /\ stack # <<>> => ~Suppressed(tree[Last(stack)], tree[cur])
    /\ LET r == HandlerEnter(rv, tree[cur])
       IN  IF r.err # ""
           THEN /\ pc' = "raised"
                /\ err' = r.err
                /\ UNCHANGED <<stack, cur, rv>>
           ELSE /\ rv' = r.rv \o TextItem(tree[cur].text)
                /\ stack' = Append(stack, cur)
                /\ cur' = cur + 1
                /\ UNCHANGED <<pc, err>>
    /\ scanVarsUnchanged
    /\ UNCHANGED <<tree, titleVars, fileVars>>

\* the pass branch of the loop: the child is not processed, its tail is appended
SkipChild ==
    /\ AtChild
    /\ stack # <<>>
    /\ Suppressed(tree[Last(stack)], tree[cur])
    /\ rv' = rv \o TextItem(tree[cur].tail)
    /\ cur' = SubtreeEnd(tree, cur, cur) + 1
    /\ scanVarsUnchanged
    /\ UNCHANGED <<tree, pc, stack, err, titleVars, fileVars>>

\* process_elt returns: the context manager exits, the parent's loop appends c.tail
Return ==
    /\ AtEnd
    /\ LET c == Last(stack)
       IN  rv' = HandlerExit(rv, tree[c])
                   \o (IF Len(stack) > 1 THEN TextItem(tree[c].tail) ELSE <<>>)
    /\ stack' = Front(stack)
    /\ pc' = IF Len(stack) = 1 THEN "scan" ELSE "walk"
    /\ scanVarsUnchanged
    /\ UNCHANGED <<tree, cur, err, titleVars, fileVars>>

-----------------------------------------------------------------------------
(* note2org: the loop over rv *)

\* an entry of lists: None, or the position in an ordered list
None == [int |-> FALSE, n |-> 0]
Position(n) == [int |-> TRUE, n |-> n]
Truthy(e) == e.int /\ e.n # 0

\* LIST_ITEM with an empty list stack taken for an item of an unordered list
ListItem_Lenient(lsts) ==
    IF lsts # <<>> /\ Truthy(Last(lsts))
    THEN [err |-> "",
          item |-> Str(<<NL>> \o StrOfInt(Last(lsts).n) \o <<".", SP>>),
          lists |-> [lsts EXCEPT ![Len(lsts)] = Position(Last(lsts).n + 1)]]
    ELSE [err |-> "", item |-> Str(<<NL, "-", SP>>), lists |-> lsts]
\* LIST_ITEM without lists[-1] += 1
ListItem_NoIncrement(lsts) ==
    IF lsts = <<>> THEN [err |-> "IndexError", item |-> LIST_ITEM, lists |-> lsts]
    ELSE IF Truthy(Last(lsts))
    THEN [err |-> "",
          item |-> Str(<<NL>> \o StrOfInt(Last(lsts).n) \o <<".", SP>>),
          lists |-> lsts]
    ELSE [err |-> "", item |-> Str(<<NL, "-", SP>>), lists |-> lsts]
\* if item is LIST_ITEM: lists[-1] raises IndexError on an empty list
ListItem(lsts) ==
    IF lsts = <<>> THEN [err |-> "IndexError", item |-> LIST_ITEM, lists |-> lsts]
    ELSE IF Truthy(Last(lsts))
    THEN [err |-> "",
          item |-> Str(<<NL>> \o StrOfInt(Last(lsts).n) \o <<".", SP>>),
          lists |-> [lsts EXCEPT ![Len(lsts)] = Position(Last(lsts).n + 1)]]
    ELSE [err |-> "", item |-> Str(<<NL, "-", SP>>), lists |-> lsts]

\* one space per level instead of two
Indented_OneSpace(s, row, level) ==
    IF row THEN Replace(s, NL, <<>>)
    ELSE Replace(s, NL, <<NL>> \o Repeat(<<SP>>, level))
\* take care of indentation
Indented(s, row, level) ==
    IF row THEN Replace(s, NL, <<>>)
    ELSE Replace(s, NL, <<NL>> \o Repeat(<<SP, SP>>, level))

\* the indentation depth after an item
NextIndent(item, level) ==
    IF item = INDENT THEN level + 1
    ELSE IF item = DEDENT THEN level - 1
    ELSE level

\* the row flag after an item
NextRow(item, row) ==
    IF item = START_ROW THEN TRUE
    ELSE IF item = END_ROW THEN FALSE
    ELSE row

\* the list stack after a list-begin or list-end item; pop raises on an empty list
NextLists(item, lsts) ==
    IF item = BEGIN_ORDERED THEN [err |-> "", lists |-> Append(lsts, Position(1))]
    ELSE IF item = BEGIN_UNORDERED THEN [err |-> "", lists |-> Append(lsts, None)]
    ELSE IF item \in {END_ORDERED, END_UNORDERED}
    THEN IF lsts = <<>> THEN [err |-> "IndexError", lists |-> lsts]
         ELSE [err |-> "", lists |-> Front(lsts)]
    ELSE [err |-> "", lists |-> lsts]

Scanning == pc = "scan"

\* one iteration of for item in rv
ScanItem ==
    /\ Scanning
    /\ idx <= Len(rv)
    /\ LET item == rv[idx]
           l1 == NextLists(item, lists)
           li == IF item = LIST_ITEM THEN ListItem(l1.lists)
                 ELSE [err |-> "", item |-> item, lists |-> l1.lists]
           level == NextIndent(item, indent_level)
           row == NextRow(item, in_row)
       IN  IF l1.err # "" \/ li.err # ""
           THEN /\ pc' = "raised"
                /\ err' = IF l1.err # "" THEN l1.err ELSE li.err
                /\ UNCHANGED <<idx, indent_level, in_row, lists, new_strs>>
           ELSE /\ indent_level' = level
                /\ in_row' = row
                /\ lists' = li.lists
                /\ new_strs' = IF IsStr(li.item)
                               THEN Append(new_strs, Indented(li.item.s, row, level))
                               ELSE new_strs
                /\ idx' = idx + 1
                /\ UNCHANGED <<pc, err>>
    /\ UNCHANGED <<tree, stack, cur, rv, result, titleVars, fileVars>>

\* return ''.join(new_strs)
Finish ==
    /\ Scanning
    /\ idx > Len(rv)
    /\ result' = Join(new_strs)
    /\ pc' = "done"
    /\ UNCHANGED <<tree, stack, cur, rv, idx, indent_level, in_row, lists,
                   new_strs, err, titleVars, fileVars>>

-----------------------------------------------------------------------------
(* Specifications of the renderer *)

Text1 == <<"x", NL, "y">>
Text2 == <<NL>>

IdleTitle == tpc = "idle" /\ title = <<>> /\ tags = <<>> /\ has_resources = FALSE /\ heading = <<>>
IdleFiles ==
    /\ fpc = "idle" /\ resources = <<>> /\ used_filenames = {}
    /\ ri = 0 /\ suffix = 0 /\ proposed_filename = <<>>

InitRender ==
    /\ tree = <<>>
    /\ pc = "parse"
    /\ stack = <<>>
    /\ cur = 1
    /\ rv = <<>>
    /\ idx = 1
    /\ indent_level = 0
    /\ in_row = FALSE
    /\ lists = <<>>
    /\ new_strs = <<>>
    /\ result = <<>>
    /\ err = ""
    /\ IdleTitle
    /\ IdleFiles

Render == note2org \/ ProcessElt \/ SkipChild \/ Return \/ ScanItem \/ Finish

\* notes of lists, list items, rows, block containers and line breaks
MixedKinds == Plain({"ol", "ul", "li", "tr", "div", "br"})
Init == InitRender
Next == fromstring(MixedKinds, {Text1}, MaxSize) \/ Render
Spec == Init /\ [][Next]_vars

\* notes of media references, block containers and line breaks
MediaKinds == {Kind("en-media", h) : h \in {<<"h">>, <<"g">>, <<"k">>, NoAttr}}
                  \cup Plain({"div", "br", "b"})
NextMedia == fromstring(MediaKinds, {Text1, Text2}, MaxSize) \/ Render
SpecMedia == Init /\ [][NextMedia]_vars

\* deeper notes of lists and list items only (no div: no child is passed over)
NextListNotes ==
    \/ fromstring(Plain({"ol", "ul", "li"}), {}, MaxListSize)
    \/ note2org \/ ProcessElt \/ Return \/ ScanItem \/ Finish
SpecLists == Init /\ [][NextListNotes]_vars

-----------------------------------------------------------------------------
(* Note.write: the heading *)

RECURSIVE JoinWith(_, _)
\* sep.join(strs)
JoinWith(sep, strs) ==
    IF strs = <<>> THEN <<>>
    ELSE IF Len(strs) = 1 THEN Head(strs)
    ELSE Head(strs) \o sep \o JoinWith(sep, Tail(strs))

Max(a, b) == IF a >= b THEN a ELSE b

HeadingWidth == 75

\* tag_str = ':' + ':'.join(tags) + ':'
TagStr(tgs) == <<":">> \o JoinWith(<<":">>, tgs) \o <<":">>

\* the padding without its lower bound of one space
NumSpaces_NoMax(ttl, tgs) == HeadingWidth - Len(ttl) - Len(TagStr(tgs))
\* num_spaces = max(1, 75 - len(title) - len(tag_str))
NumSpaces(ttl, tgs) == Max(1, HeadingWidth - Len(ttl) - Len(TagStr(tgs)))

format_title_and_tags(ttl, tgs) ==
    IF tgs # <<>>
    THEN <<"*", SP>> \o ttl \o Repeat(<<SP>>, NumSpaces(ttl, tgs)) \o TagStr(tgs) \o <<NL>>
    ELSE <<"*", SP>> \o ttl \o <<NL>>

ATTACH == <<"A", "T", "T", "A", "C", "H">>

Titles == {Repeat(<<"t">>, n) : n \in 0..MaxTitleLen}
TagLists == {<<>>, <<<<"a">>>>, <<<<"a">>, <<"b">>>>, <<<<"w", "o", "r", "k">>>>,
             <<<<"a">>, <<"w", "o", "r", "k">>, <<"b">>>>}

InitTitle ==
    /\ tpc = "write"
    /\ title \in Titles
    /\ tags \in TagLists
    /\ has_resources \in BOOLEAN
    /\ heading = <<>>
    /\ pc = "idle" /\ tree = <<>> /\ stack = <<>> /\ cur = 1 /\ rv = <<>>
    /\ idx = 1 /\ indent_level = 0 /\ in_row = FALSE /\ lists = <<>>
    /\ new_strs = <<>> /\ result = <<>> /\ err = ""
    /\ IdleFiles

\* if self.resources: self.tags.append('ATTACH')
AppendAttach ==
    /\ tpc = "write"
    /\ tags' = IF has_resources THEN Append(tags, ATTACH) ELSE tags
    /\ tpc' = "format"
    /\ UNCHANGED <<title, has_resources, heading, renderVars, fileVars>>

\* outfile.write(format_title_and_tags(self.title, self.tags))
WriteHeading ==
    /\ tpc = "format"
    /\ heading' = format_title_and_tags(title, tags)
    /\ tpc' = "written"
    /\ UNCHANGED <<title, tags, has_resources, renderVars, fileVars>>

NextTitle == AppendAttach \/ WriteHeading
SpecTitle == InitTitle /\ [][NextTitle]_vars

-----------------------------------------------------------------------------
(* read_resources: ensure_unique_filenames *)

RECURSIVE RFind(_, _)
\* s.rfind(ch), 0-based; -1 when ch is not in s
RFind(s, ch) ==
    IF s = <<>> THEN -1
    ELSE IF Last(s) = ch THEN Len(s) - 1
    ELSE RFind(Front(s), ch)

\* left, right of the filename
Left(filename) ==
    LET dotidx == RFind(filename, ".")
    IN  IF dotidx <= 0 THEN filename ELSE SubSeq(filename, 1, dotidx)
Right(filename) ==
    LET dotidx == RFind(filename, ".")
    IN  IF dotidx <= 0 THEN <<>> ELSE SubSeq(filename, dotidx + 1, Len(filename))

\* the suffix put after the extension
Proposed_AtEnd(filename, n) == filename \o <<"_">> \o StrOfInt(n)
\* left + '_' + str(suffix) + right
Proposed(filename, n) == Left(filename) \o <<"_">> \o StrOfInt(n) \o Right(filename)

Filenames == {<<"a", ".", "x">>, <<"a", "_", "1", ".", "x">>, <<"a">>,
              <<"a", "_", "1">>, <<".", "x">>, <<"a", "_", "2", ".", "x">>}

InitFiles ==
    /\ fpc = "for"
    /\ resources \in UNION {[1..n -> Filenames] : n \in 0..MaxResources}
    /\ used_filenames = {}
    /\ ri = 0
    /\ suffix = 0
    /\ proposed_filename = <<>>
    /\ pc = "idle" /\ tree = <<>> /\ stack = <<>> /\ cur = 1 /\ rv = <<>>
    /\ idx = 1 /\ indent_level = 0 /\ in_row = FALSE /\ lists = <<>>
    /\ new_strs = <<>> /\ result = <<>> /\ err = ""
    /\ IdleTitle

\* for res in resources: the test of the filename, and the first proposal
ForRes ==
    /\ fpc = "for"
    /\ ri < Len(resources)
    /\ ri' = ri + 1
    /\ IF resources[ri + 1] \in used_filenames
       THEN /\ suffix' = 1
            /\ proposed_filename' = Proposed(resources[ri + 1], 1)
            /\ fpc' = "while"
            /\ UNCHANGED <<resources, used_filenames>>
       ELSE /\ used_filenames' = used_filenames \cup {resources[ri + 1]}
            /\ UNCHANGED <<fpc, resources, suffix, proposed_filename>>
    /\ UNCHANGED <<renderVars, titleVars>>

\* while proposed_filename in used_filenames: the body
WhileUsed ==
    /\ fpc = "while"
    /\ proposed_filename \in used_filenames
    /\ suffix' = suffix + 1
    /\ proposed_filename' = Proposed(resources[ri], suffix + 1)
    /\ UNCHANGED <<fpc, resources, used_filenames, ri, renderVars, titleVars>>

\* the loop ends: res.filename = proposed_filename; used_filenames.add(res.filename)
Rename ==
    /\ fpc = "while"
    /\ proposed_filename \notin used_filenames
    /\ resources' = [resources EXCEPT ![ri] = proposed_filename]
    /\ used_filenames' = used_filenames \cup {proposed_filename}
    /\ fpc' = "for"
    /\ UNCHANGED <<ri, suffix, proposed_filename, renderVars, titleVars>>

\* the for loop is exhausted
ForDone ==
    /\ fpc = "for"
    /\ ri = Len(resources)
    /\ fpc' = "done"
    /\ UNCHANGED <<resources, used_filenames, ri, suffix, proposed_filename,
                   renderVars, titleVars>>

NextFiles == ForRes \/ WhileUsed \/ Rename \/ ForDone
SpecFiles == InitFiles /\ [][NextFiles]_vars /\ WF_vars(NextFiles)

-----------------------------------------------------------------------------
(* Structure of a token stream and of a document tree, for the properties *)

RECURSIVE Count(_, _, _)
\* occurrences of item m among the first n items of stream
Count(stream, n, m) ==
    IF n = 0 THEN 0
    ELSE Count(stream, n - 1, m) + (IF stream[n] = m THEN 1 ELSE 0)

\* list items, and table rows, open before item i of the stream
OpenItems(stream, i) == Count(stream, i - 1, INDENT) - Count(stream, i - 1, DEDENT)
OpenRows(stream, i) == Count(stream, i - 1, START_ROW) - Count(stream, i - 1, END_ROW)

Has(s, ch) == \E p \in 1..Len(s) : s[p] = ch
Occurrences(s, ch) == Cardinality({p \in 1..Len(s) : s[p] = ch})

\* every newline of s is followed by exactly n spaces
NewlinesIndented(s, n) ==
    \A p \in 1..Len(s) :
        s[p] = NL =>
            /\ p + n <= Len(s)
            /\ \A q \in 1..n : s[p + q] = SP
            /\ p + n < Len(s) => s[p + n + 1] # SP

RECURSIVE Parent(_, _, _)
\* the parent of element i: the last element before it one level up (0 for the root)
Parent(t, i, j) ==
    IF j = 0 THEN 0
    ELSE IF t[j].depth = t[i].depth - 1 THEN j
    ELSE Parent(t, i, j - 1)
ParentOf(t, i) == Parent(t, i, i - 1)

RECURSIVE NearestList(_, _)
\* the nearest enclosing ordered or unordered list of element i (0 when none)
NearestList(t, i) ==
    LET p == ParentOf(t, i)
    IN  IF p = 0 THEN 0
        ELSE IF t[p].tag \in {"ol", "ul"} THEN p
        ELSE NearestList(t, p)

RECURSIVE Walked(_, _)
\* element i is reached by process_elt: neither it nor an ancestor is a br
\* directly under a div
Walked(t, i) ==
    LET p == ParentOf(t, i)
    IN  IF p = 0 THEN TRUE
        ELSE ~(t[p].tag = "div" /\ t[i].tag = "br") /\ Walked(t, p)

\* a scan step that completes (the loop body runs to its end on item idx)
ScanStep == Scanning /\ idx <= Len(rv) /\ pc' = "scan"
\* a scan step that appends a string to new_strs
Emits == ScanStep /\ Len(new_strs') = Len(new_strs) + 1

-----------------------------------------------------------------------------
(* Properties of the renderer *)

\* C1: the token stream built by the walker is balanced: while the loop scans
\* it the indentation depth never goes below 0 and a list-end marker never
\* meets an empty list stack; when note2org returns, the indentation depth is
\* 0, the row flag is false and the list stack is empty.
C1_Balanced ==
    /\ indent_level >= 0
    /\ (Scanning /\ idx <= Len(rv) /\ rv[idx] = DEDENT) => indent_level > 0
    /\ (Scanning /\ idx <= Len(rv) /\ rv[idx] \in {END_ORDERED, END_UNORDERED})
          => lists # <<>>
    /\ (Scanning /\ idx > Len(rv)) \/ pc = "done"
          => indent_level = 0 /\ in_row = FALSE /\ lists = <<>>
    /\ pc = "raised" /\ err = "IndexError"
          => rv[idx] = LIST_ITEM /\ lists = <<>>

\* a render that returns, of a tree with a list item, a list and a row
C1_Witness ==
    /\ pc = "done"
    /\ Count(rv, Len(rv), DEDENT) > 0
    /\ Count(rv, Len(rv), END_ROW) > 0
    /\ Count(rv, Len(rv), END_ORDERED) + Count(rv, Len(rv), END_UNORDERED) > 0

\* C3: outside table rows, every newline emitted while d list items are open
\* is followed in the output by exactly 2*d spaces, and none is lost; the
\* bullet or ordinal line of a list item is emitted before its ENTER-INDENT,
\* at the depth of the enclosing level.
C3_Indentation ==
    [][(Emits /\ OpenRows(rv, idx) = 0) =>
          /\ NewlinesIndented(Last(new_strs'), 2 * OpenItems(rv, idx))
          /\ IsStr(rv[idx]) =>
                Occurrences(Last(new_strs'), NL) = Occurrences(rv[idx].s, NL)
          /\ rv[idx] = LIST_ITEM =>
                /\ Occurrences(Last(new_strs'), NL) = 1
                /\ Head(Last(new_strs')) = NL
                /\ rv[idx + 1] = INDENT
                /\ indent_level' = OpenItems(rv, idx + 1)]_vars

\* a line break two list items deep has been rendered as a newline and four spaces
C3_Witness ==
    /\ Scanning
    /\ idx > 1
    /\ rv[idx - 1] = Str(<<NL>>)
    /\ OpenItems(rv, idx - 1) = 2
    /\ OpenRows(rv, idx - 1) = 0
    /\ new_strs # <<>>
    /\ Last(new_strs) = <<NL, SP, SP, SP, SP>>

\* C4: every item emitted between a ROW-START marker and its matching ROW-END
\* marker contributes no newline character (and so no indentation) to the
\* output.
C4_RowContentsFlat ==
    [][(Emits /\ OpenRows(rv, idx) > 0) => ~Has(Last(new_strs'), NL)]_vars

\* C5: a LIST-ITEM marker met while the list stack is empty makes note2org
\* raise: the marker is not skipped, nothing is rendered for it, and no text
\* is returned.
C5_ListItemOutsideList ==
    /\ [][(Scanning /\ idx <= Len(rv) /\ rv[idx] = LIST_ITEM /\ lists = <<>>) =>
             /\ pc' = "raised"
             /\ err' = "IndexError"
             /\ UNCHANGED <<idx, new_strs, result>>]_vars
    /\ [][pc = "raised" => pc' = "raised" /\ result' = <<>>]_vars
    /\ [](pc = "raised" => result = <<>>)

\* the loop has raised on a LIST-ITEM marker with an empty list stack
C5_Witness ==
    /\ pc = "raised"
    /\ err = "IndexError"
    /\ idx <= Len(rv)
    /\ rv[idx] = LIST_ITEM
    /\ lists = <<>>
    /\ result = <<>>

\* C9, for a last item that is a structural marker: entering a div appends
\* "\n" before the children (a marker does not end in "\n") and does not fail.
C9_DivAfterMarker ==
    [][(AtChild /\ tree[cur].tag = "div" /\ rv # <<>> /\ ~IsStr(Last(rv))) =>
          /\ pc' = "walk"
          /\ rv' = rv \o <<Str(<<NL>>)>> \o TextItem(tree[cur].text)]_vars

\* C10: a br that is a direct child of a div contributes nothing to the token
\* stream (no "\n", none of its text, none of its children) while its tail is
\* still emitted; a br under any other parent emits exactly one "\n", then
\* its text.
C10_BrUnderDiv ==
    /\ [][(AtChild /\ tree[cur].tag = "br") =>
             IF stack # <<>> /\ tree[Last(stack)].tag = "div"
             THEN /\ rv' = rv \o TextItem(tree[cur].tail)
                  /\ stack' = stack
                  /\ cur' = SubtreeEnd(tree, cur, cur) + 1
             ELSE /\ rv' = rv \o <<Str(<<NL>>)>> \o TextItem(tree[cur].text)
                  /\ stack' = Append(stack, cur)]_vars
    /\ [](\A k \in 1..Len(stack) : Walked(tree, stack[k]))

\* a br with text and a tail, directly under a div, has just been passed
\* over: only its tail is in the stream
C10_Witness ==
    /\ Walking
    /\ stack # <<>>
    /\ tree[Last(stack)].tag = "div"
    /\ \E j \in 2..Len(tree) :
          /\ tree[j].tag = "br"
          /\ ParentOf(tree, j) = Last(stack)
          /\ tree[j].text # <<>>
          /\ tree[j].tail = Text1
          /\ cur = SubtreeEnd(tree, j, j) + 1
          /\ rv = <<Str(<<"x", "y">>)>>

\* the list-item elements the walker reaches
WalkedItems(t) == {e \in 1..Len(t) : t[e].tag = "li" /\ Walked(t, e)}
\* the element of the LIST-ITEM marker at item i of the stream: the markers
\* are emitted in document order
ItemElement(t, stream, i) ==
    CHOOSE e \in WalkedItems(t) :
        Cardinality({f \in WalkedItems(t) : f <= e}) = Count(stream, i, LIST_ITEM)
\* what a rendered bullet or ordinal line holds besides newline and indentation
Bare(s) == Replace(Replace(s, NL, <<>>), SP, <<>>)

\* C2, as stated: the k-th direct list-item child of an ordered list is
\* rendered with the ordinal k, and a direct list-item child of an unordered
\* list as a bullet.
C2_DirectItemOrdinals ==
    [][(ScanStep /\ rv[idx] = LIST_ITEM) =>
          LET e == ItemElement(tree, rv, idx)
              L == ParentOf(tree, e)
              k == Cardinality({f \in 1..e : tree[f].tag = "li" /\ ParentOf(tree, f) = L})
          IN  /\ (L # 0 /\ tree[L].tag = "ol") =>
                    Emits /\ Bare(Last(new_strs')) = StrOfInt(k) \o <<".">>
              /\ (L # 0 /\ tree[L].tag = "ul") =>
                    Emits /\ Bare(Last(new_strs')) = <<"-">>]_vars

\* C2, amended: the k-th list item, among those the walker reaches, whose
\* nearest enclosing list is a given ordered list is rendered with the
\* ordinal k, whatever lists are nested inside the items (a nested ordered
\* list counts its own items from 1); a list item whose nearest enclosing
\* list is unordered is rendered as a bullet.
C2_NearestListOrdinals ==
    [][(ScanStep /\ rv[idx] = LIST_ITEM) =>
          LET e == ItemElement(tree, rv, idx)
              L == NearestList(tree, e)
              k == Cardinality({f \in WalkedItems(tree) :
                                    f <= e /\ NearestList(tree, f) = L})
          IN  /\ L # 0
              /\ Emits
              /\ tree[L].tag = "ol" => Bare(Last(new_strs')) = StrOfInt(k) \o <<".">>
              /\ tree[L].tag = "ul" => Bare(Last(new_strs')) = <<"-">>]_vars

\* the second item of an ordered list has been rendered "2." after the item
\* of a list nested in the first item
C2_Witness ==
    /\ Scanning
    /\ Len(tree) = 5
    /\ tree[1].tag = "ol"
    /\ tree[2].tag = "li" /\ tree[2].depth = 1
    /\ tree[3].tag \in {"ol", "ul"} /\ tree[3].depth = 2
    /\ tree[4].tag = "li" /\ tree[4].depth = 3
    /\ tree[5].tag = "li" /\ tree[5].depth = 1
    /\ idx > 1
    /\ rv[idx - 1] = LIST_ITEM
    /\ Count(rv, idx - 1, LIST_ITEM) = 3
    /\ Last(new_strs) = <<NL, "2", ".", SP>>

\* C6: a media reference whose hash is not a key of the resource table makes
\* the render fail with no link emitted; one whose hash is a key emits
\* exactly [[file:<attachment_dir>/<filename>][<filename>]].
C6_MediaLink ==
    [][(AtChild /\ tree[cur].tag = "en-media") =>
          IF tree[cur].attrib \in DOMAIN Resources
          THEN LET filename == Resources[tree[cur].attrib]
               IN  /\ pc' = "walk"
                   /\ rv' = rv \o <<Str(<<"[", "[", "f", "i", "l", "e", ":">>
                                        \o AttachmentDir \o <<"/">> \o filename
                                        \o <<"]", "[">> \o filename \o <<"]", "]">>)>>
                               \o TextItem(tree[cur].text)
          ELSE /\ pc' = "raised"
               /\ err' = "KeyError"
               /\ UNCHANGED <<rv, result>>]_vars

-----------------------------------------------------------------------------
(* Properties of the heading *)

RECURSIVE TagBlockTail(_)
TagBlockTail(tgs) ==
    IF tgs = <<>> THEN <<>> ELSE Head(tgs) \o <<":">> \o TagBlockTail(Tail(tgs))
\* :tag1:...:tagN:
TagBlock(tgs) == <<":">> \o TagBlockTail(tgs)

\* C7: with tags, the heading is "* " + title + padding + ":tag1:...:tagN:" +
\* newline, the padding being the spaces that bring title and padding to 75
\* minus the length of the tag block, and at least one space; without tags it
\* is "* " + title + newline.
C7_Heading ==
    tpc = "written" =>
        IF tags # <<>>
        THEN \E n \in 1..75 :
                /\ heading = <<"*", SP>> \o title \o [q \in 1..n |-> SP]
                                \o TagBlock(tags) \o <<NL>>
                /\ Len(title) + n >= 75 - Len(TagBlock(tags))
                /\ n > 1 => Len(title) + n = 75 - Len(TagBlock(tags))
        ELSE heading = <<"*", SP>> \o title \o <<NL>>

\* the heading of the title "tt" with the tags a and b: 68 spaces of padding
C7_Witness ==
    /\ tpc = "written"
    /\ title = <<"t", "t">>
    /\ tags = <<<<"a">>, <<"b">>>>
    /\ Len(heading) = 78
    /\ SubSeq(heading, 1, 5) = <<"*", SP, "t", "t", SP>>
    /\ SubSeq(heading, 72, 78) = <<SP, ":", "a", ":", "b", ":", NL>>

-----------------------------------------------------------------------------
(* Properties of ensure_unique_filenames *)

\* new is old with "_<n>" inserted before the extension: the part from the
\* last dot on, unless that dot starts the name
InsertedBeforeExtension(old, new, n) ==
    \E p \in 0..Len(old) :
        LET stem == SubSeq(old, 1, p)
            ext == SubSeq(old, p + 1, Len(old))
        IN  /\ new = stem \o <<"_">> \o StrOfInt(n) \o ext
            /\ IF \E q \in 2..Len(old) : old[q] = "."
               THEN /\ stem # <<>>
                    /\ ext # <<>>
                    /\ Head(ext) = "."
                    /\ Occurrences(ext, ".") = 1
               ELSE ext = <<>>

\* C8: when ensure_unique_filenames is done the filenames are pairwise
\* distinct; a filename not yet used is kept; a used one gets "_<n>" inserted
\* before its extension, for the least n >= 1 that gives an unused name; and
\* the function terminates.
C8_UniqueFilenames ==
    /\ [](fpc = "done" =>
             \A a, b \in 1..Len(resources) : a # b => resources[a] # resources[b])
    /\ [][(fpc = "for" /\ ri < Len(resources)
              /\ resources[ri + 1] \notin {resources[a] : a \in 1..ri}) =>
             /\ resources' = resources
             /\ fpc' = "for"]_vars
    /\ [][(fpc = "while" /\ fpc' = "for") =>
             \E n \in 1..(Len(resources) + 1) :
                /\ InsertedBeforeExtension(resources[ri], resources'[ri], n)
                /\ resources'[ri] \notin {resources[a] : a \in 1..(ri - 1)}
                /\ \A m \in 1..(n - 1) : \E a \in 1..(ri - 1) :
                      InsertedBeforeExtension(resources[ri], resources[a], m)
                /\ \A a \in 1..Len(resources) : a # ri => resources'[a] = resources[a]]_vars
    /\ <>(fpc = "done")

\* a.x, a_1.x, a.x: the third has been renamed a_2.x
C8_Witness ==
    /\ fpc = "done"
    /\ suffix = 2
    /\ resources = <<<<"a", ".", "x">>, <<"a", "_", "1", ".", "x">>,
                     <<"a", "_", "2", ".", "x">>>>

=============================================================================
